---- MODULE Spec2Model ----
(***************************************************************************)
(* Fulcrum, src/TXO.h: the TXO key (txHash:outN), the TXOInfo spend        *)
(* record, their fixed-width serialisation and std::hash<TXO>.             *)
(*                                                                         *)
(* Representation.  A byte is a number in 0..255 and a QByteArray is a     *)
(* sequence of bytes.  TLC's integers are 32 bits wide, so a machine       *)
(* integer wider than 16 bits (int, unsigned, int64_t, uint64_t) is kept   *)
(* as its two's-complement digits, most significant byte first ("word");   *)
(* its bytes in memory are the word in the build's native byte order.      *)
(***************************************************************************)
EXTENDS Integers, Sequences, FiniteSets, TLC

VARIABLES
    bigEndian,  \* the build's native byte order
    txo,        \* a TXO object held by the caller
    other,      \* a second TXO object, the right-hand operand of comparisons
    info,       \* a TXOInfo object held by the caller
    ba,         \* a QByteArray held by the caller (a stored key or value)
    op,         \* the operation that ran last
    txoFrom,    \* the bytes txo was parsed from, if it was parsed
    infoFrom,   \* the bytes info was parsed from, if it was parsed
    baFrom,     \* the object ba was serialised from, if it was serialised
    reads,      \* offsets of its argument the last fromBytes read
    rhs,        \* right-hand operand of the last comparison
    cmp,        \* result of the last comparison
    hashCall,   \* the last call of std::hash<TXO>
    hashPrev    \* the call of std::hash<TXO> before it

vars == <<bigEndian, txo, other, info, ba, op, txoFrom, infoFrom, baFrom, reads,
          rhs, cmp, hashCall, hashPrev>>

---------------------------------------------------------------------------
(* Program constants *)

HashLen == 32
IONumSize == 2
Int64Size == 8
IntSize == 4
U64Size == 8
compactTxNumSize == 6

(* Bounds of the model *)

NumByteVals == 2
MaxExtra == 1

---------------------------------------------------------------------------
(* Memory *)

Min(a, b) == IF a < b THEN a ELSE b

\* a byte of a buffer that was allocated and never written
Uninit == 0 - 1
\* what a read past the end of a buffer yields
OOB == 0 - 2

Reverse(s) == [i \in 1..Len(s) |-> s[Len(s) + 1 - i]]

\* QByteArray::resize on an empty array: n bytes, none initialised
Resize(n) == [i \in 1..n |-> Uninit]

\* the n bytes at mem + off
ReadBytes(mem, off, n) ==
    [i \in 1..n |-> IF off + i <= Len(mem) THEN mem[off + i] ELSE OOB]

\* the offsets ReadBytes(mem, off, n) touches
ReadSpan(off, n) == off..(off + n - 1)

\* std::memcpy(buf + off, src, Len(src))
MemCpy(buf, off, src) ==
    [i \in 1..Len(buf) |->
        IF i > off /\ i <= off + Len(src) THEN src[i - off] ELSE buf[i]]

\* the bytes of a machine integer in memory, and back
NativeBytes(word, be) == IF be THEN word ELSE Reverse(word)
FromNative(bytes, be) == IF be THEN bytes ELSE Reverse(bytes)

\* uint16_t <-> its word
IONumWord(n) == <<n \div 256, n % 256>>
WordIONum(w) == w[1] * 256 + w[2]

\* a signed word is negative iff its top bit is set
IsNegative(word) == word[1] >= 128

ZeroWord(n) == [i \in 1..n |-> 0]
MinusOne(n) == [i \in 1..n |-> 255]

\* QByteArray operator<: qstrcmp, i.e. memcmp on the common prefix, then length
RECURSIVE BytesLessFrom(_, _, _)
BytesLessFrom(a, b, i) ==
    IF i > Len(a) THEN i <= Len(b)
    ELSE IF i > Len(b) THEN FALSE
    ELSE IF a[i] # b[i] THEN a[i] < b[i]
    ELSE BytesLessFrom(a, b, i + 1)

BytesLess(a, b) == BytesLessFrom(a, b, 1)

---------------------------------------------------------------------------
(* struct TXO *)

TXO_default == [txHash |-> <<>>, outN |-> 0]

TXO_isValid(t) == Len(t.txHash) = HashLen

TXO_serSize == HashLen + IONumSize

TXO_eq(a, b) == a.txHash = b.txHash /\ a.outN = b.outN

TXO_less(a, b) == BytesLess(a.txHash, b.txHash) /\ a.outN < b.outN

\* TXO_toBytes with outN written most significant byte first on every build
TXO_toBytes_NetworkOrder(t, be) ==
    IF ~TXO_isValid(t) THEN <<>>
    ELSE LET hlen == Len(t.txHash)
             ret0 == Resize(TXO_serSize)
             ret1 == MemCpy(ret0, 0, ReadBytes(t.txHash, 0, hlen))
         IN  MemCpy(ret1, hlen, IONumWord(t.outN))

TXO_toBytes(t, be) ==
    IF ~TXO_isValid(t) THEN <<>>
    ELSE LET hlen == Len(t.txHash)
             ret0 == Resize(TXO_serSize)
             ret1 == MemCpy(ret0, 0, ReadBytes(t.txHash, 0, hlen))
         IN  MemCpy(ret1, hlen, NativeBytes(IONumWord(t.outN), be))

\* TXO_fromBytes with outN read one byte early
TXO_fromBytes_OffByOne(b, be) ==
    IF Len(b) # TXO_serSize THEN [val |-> TXO_default, reads |-> {}]
    ELSE [val |-> [txHash |-> ReadBytes(b, 0, HashLen),
                   outN |-> WordIONum(FromNative(ReadBytes(b, HashLen - 1, IONumSize), be))],
          reads |-> ReadSpan(0, HashLen) \cup ReadSpan(HashLen - 1, IONumSize)]

\* TXO_fromBytes that turns away only the byte strings that are too short
TXO_fromBytes_ShortOnly(b, be) ==
    IF Len(b) < TXO_serSize THEN [val |-> TXO_default, reads |-> {}]
    ELSE [val |-> [txHash |-> ReadBytes(b, 0, HashLen),
                   outN |-> WordIONum(FromNative(ReadBytes(b, HashLen, IONumSize), be))],
          reads |-> ReadSpan(0, HashLen) \cup ReadSpan(HashLen, IONumSize)]

TXO_fromBytes(b, be) ==
    IF Len(b) # TXO_serSize THEN [val |-> TXO_default, reads |-> {}]
    ELSE [val |-> [txHash |-> ReadBytes(b, 0, HashLen),
                   outN |-> WordIONum(FromNative(ReadBytes(b, HashLen, IONumSize), be))],
          reads |-> ReadSpan(0, HashLen) \cup ReadSpan(HashLen, IONumSize)]

---------------------------------------------------------------------------
(* std::hash<TXO> *)

hash2copy == U64Size - IONumSize

\* the union left as it was found
ClearU64_Skipped(u) == u

\* u.u64 = 0: every byte of the union is cleared, whatever it held
ClearU64(u) == [i \in 1..Len(u) |-> 0]

RECURSIVE XorBits(_, _, _)
XorBits(a, b, n) ==
    IF n = 0 THEN 0
    ELSE ((a + b) % 2) + 2 * XorBits(a \div 2, b \div 2, n - 1)

\* std::hash<uint64_t>: a fixed 64-bit mixer of the standard library,
\* here v ^ (v >> 32)
hasher64(v) ==
    [i \in 1..Len(v) |-> IF i <= 4 THEN v[i] ELSE XorBits(v[i], v[i - 4], 8)]

\* the hasher copying hash2copy bytes of txHash whatever its length
TXO_hash_NoMin(t, be, junk) ==
    LET u1 == ClearU64(junk)
        n  == hash2copy
        u2 == MemCpy(u1, 0, ReadBytes(t.txHash, 0, n))
        u3 == MemCpy(u2, hash2copy, NativeBytes(IONumWord(t.outN), be))
        v  == FromNative(u3, be)
    IN  [set |-> TRUE, key |-> t, buf |-> u3, nread |-> n, u64 |-> v,
         digest |-> hasher64(v)]

\* operator()(const TXO &): junk is what the union's storage held on entry
TXO_hash(t, be, junk) ==
    LET u1 == ClearU64(junk)
        n  == Min(Len(t.txHash), hash2copy)
        u2 == MemCpy(u1, 0, ReadBytes(t.txHash, 0, n))
        u3 == MemCpy(u2, hash2copy, NativeBytes(IONumWord(t.outN), be))
        v  == FromNative(u3, be)
    IN  [set |-> TRUE, key |-> t, buf |-> u3, nread |-> n, u64 |-> v,
         digest |-> hasher64(v)]

NoHash ==
    [set |-> FALSE, key |-> TXO_default, buf |-> <<>>, nread |-> 0,
     u64 |-> <<>>, digest |-> <<>>]

---------------------------------------------------------------------------
(* CompactTXO's txNum codec: the low compactTxNumSize bytes of the 64-bit  *)
(* txNum, least significant byte first                                     *)

txNumToCompactBytes(txNum) ==
    Reverse(SubSeq(txNum, U64Size - compactTxNumSize + 1, U64Size))

txNumFromCompactBytes(bytes) ==
    ZeroWord(U64Size - compactTxNumSize) \o Reverse(bytes)

---------------------------------------------------------------------------
(* struct TXOInfo *)

\* std::optional<unsigned> without a value
NullOpt == <<>>
HasValue(h) == h # NullOpt

\* bitcoin::Amount holds an int64_t count of satoshis and Amount::satoshi()
\* is the Amount of 1: amount / satoshi() is the count divided by 1 and
\* amt * satoshi() the Amount of amt times 1
Satoshis(amount) == amount
AmountOf(sats) == sats

TXOInfo_default ==
    [amount |-> ZeroWord(Int64Size), hashX |-> <<>>,
     confirmedHeight |-> NullOpt, txNum |-> ZeroWord(U64Size)]

\* isValid that looks at hashX alone
TXOInfo_isValid_HashOnly(r) == Len(r.hashX) = HashLen

TXOInfo_isValid(r) == ~IsNegative(Satoshis(r.amount)) /\ Len(r.hashX) = HashLen

TXOInfo_eq(a, b) ==
    /\ a.amount = b.amount
    /\ a.hashX = b.hashX
    /\ a.confirmedHeight = b.confirmedHeight
    /\ a.txNum = b.txNum

TXOInfo_serSize == Int64Size + IntSize + compactTxNumSize + HashLen

\* toBytes that writes an absent height as 0
TXOInfo_toBytes_ZeroSentinel(r, be) ==
    IF ~TXOInfo_isValid(r) THEN <<>>
    ELSE LET amt_sats == Satoshis(r.amount)
             cheight == IF HasValue(r.confirmedHeight) THEN r.confirmedHeight
                        ELSE ZeroWord(IntSize)
             ret0 == Resize(TXOInfo_serSize)
             ret1 == MemCpy(ret0, 0, NativeBytes(amt_sats, be))
             cur1 == Int64Size
             ret2 == MemCpy(ret1, cur1, NativeBytes(cheight, be))
             cur2 == cur1 + IntSize
             ret3 == MemCpy(ret2, cur2, txNumToCompactBytes(r.txNum))
             cur3 == cur2 + compactTxNumSize
         IN  MemCpy(ret3, cur3, ReadBytes(r.hashX, 0, Len(r.hashX)))

\* toBytes that does not advance the cursor past the txNum
TXOInfo_toBytes_CursorSlip(r, be) ==
    IF ~TXOInfo_isValid(r) THEN <<>>
    ELSE LET amt_sats == Satoshis(r.amount)
             cheight == IF HasValue(r.confirmedHeight) THEN r.confirmedHeight
                        ELSE MinusOne(IntSize)
             ret0 == Resize(TXOInfo_serSize)
             ret1 == MemCpy(ret0, 0, NativeBytes(amt_sats, be))
             cur1 == Int64Size
             ret2 == MemCpy(ret1, cur1, NativeBytes(cheight, be))
             cur2 == cur1 + IntSize
             ret3 == MemCpy(ret2, cur2, txNumToCompactBytes(r.txNum))
             cur3 == cur2
         IN  MemCpy(ret3, cur3, ReadBytes(r.hashX, 0, Len(r.hashX)))

TXOInfo_toBytes(r, be) ==
    IF ~TXOInfo_isValid(r) THEN <<>>
    ELSE LET amt_sats == Satoshis(r.amount)
             \* int(*confirmedHeight) keeps the 32 bits of the unsigned
             cheight == IF HasValue(r.confirmedHeight) THEN r.confirmedHeight
                        ELSE MinusOne(IntSize)
             ret0 == Resize(TXOInfo_serSize)
             ret1 == MemCpy(ret0, 0, NativeBytes(amt_sats, be))
             cur1 == Int64Size
             ret2 == MemCpy(ret1, cur1, NativeBytes(cheight, be))
             cur2 == cur1 + IntSize
             ret3 == MemCpy(ret2, cur2, txNumToCompactBytes(r.txNum))
             cur3 == cur2 + compactTxNumSize
         IN  MemCpy(ret3, cur3, ReadBytes(r.hashX, 0, Len(r.hashX)))

\* fromBytes that takes a height of 0 for the sentinel (cheight > 0)
TXOInfo_fromBytes_PositiveOnly(b, be) ==
    IF Len(b) # TXOInfo_serSize THEN [val |-> TXOInfo_default, reads |-> {}]
    ELSE LET amt == FromNative(ReadBytes(b, 0, Int64Size), be)
             cur1 == Int64Size
             cheight == FromNative(ReadBytes(b, cur1, IntSize), be)
             cur2 == cur1 + IntSize
             txNum == txNumFromCompactBytes(ReadBytes(b, cur2, compactTxNumSize))
             cur3 == cur2 + compactTxNumSize
         IN  [val |-> [amount |-> AmountOf(amt),
                       hashX |-> ReadBytes(b, cur3, HashLen),
                       confirmedHeight |-> IF ~IsNegative(cheight)
                                              /\ cheight # ZeroWord(IntSize)
                                           THEN cheight ELSE NullOpt,
                       txNum |-> txNum],
              reads |-> ReadSpan(0, Int64Size) \cup ReadSpan(cur1, IntSize)
                        \cup ReadSpan(cur2, compactTxNumSize)
                        \cup ReadSpan(cur3, HashLen)]

TXOInfo_fromBytes(b, be) ==
    IF Len(b) # TXOInfo_serSize THEN [val |-> TXOInfo_default, reads |-> {}]
    ELSE LET amt == FromNative(ReadBytes(b, 0, Int64Size), be)
             cur1 == Int64Size
             cheight == FromNative(ReadBytes(b, cur1, IntSize), be)
             cur2 == cur1 + IntSize
             txNum == txNumFromCompactBytes(ReadBytes(b, cur2, compactTxNumSize))
             cur3 == cur2 + compactTxNumSize
         IN  [val |-> [amount |-> AmountOf(amt),
                       hashX |-> ReadBytes(b, cur3, HashLen),
                       confirmedHeight |-> IF ~IsNegative(cheight) THEN cheight
                                           ELSE NullOpt,
                       txNum |-> txNum],
              reads |-> ReadSpan(0, Int64Size) \cup ReadSpan(cur1, IntSize)
                        \cup ReadSpan(cur2, compactTxNumSize)
                        \cup ReadSpan(cur3, HashLen)]

---------------------------------------------------------------------------
(* Inputs: the objects and byte strings a caller may hold *)

SampleBytes == <<0, 255, 128, 1, 127, 254, 2, 253>>
ByteSample == {SampleBytes[i] : i \in 1..NumByteVals}

\* a byte string whose bytes are pairwise different, so that a byte moved to
\* another offset shows, with byte p (if any) replaced by x
Pat(i) == (i * 37 + 11) % 256
MkBytes(len, p, x) == [i \in 1..len |-> IF i = p THEN x ELSE Pat(i)]

HashLens == {0, hash2copy - 1} \cup ((HashLen - MaxExtra)..(HashLen + MaxExtra))

Hashes ==
    {MkBytes(len, 0, 0) : len \in HashLens}
    \cup {MkBytes(HashLen, p, x) : p \in {hash2copy, hash2copy + 1}, x \in ByteSample}

OutNs == {0, 1, 256}

Keys == [txHash : Hashes, outN : OutNs]

\* what the stack may hold where the hasher's union is placed
Junk == {[i \in 1..U64Size |-> x] : x \in ByteSample}

Amounts ==
    { ZeroWord(Int64Size),                    \* 0
      <<0, 0, 0, 0, 0, 0, 19, 136>>,          \* 5000
      MinusOne(Int64Size),                    \* -1
      <<128, 0, 0, 0, 0, 0, 0, 0>>,           \* INT64_MIN
      <<127, 255, 255, 255, 255, 255, 255, 255>> }  \* INT64_MAX

Heights ==
    { NullOpt,
      ZeroWord(IntSize),                      \* 0
      <<0, 9, 235, 16>>,                      \* 650000
      <<127, 255, 255, 255>>,                 \* INT_MAX
      <<128, 0, 0, 0>>,                       \* INT_MAX + 1
      MinusOne(IntSize) }                     \* UINT_MAX

TxNums ==
    { ZeroWord(U64Size),                      \* 0
      <<0, 0, 0, 0, 0, 1, 226, 64>>,          \* 123456
      <<0, 0, 255, 255, 255, 255, 255, 255>>, \* 2^48 - 1
      <<0, 1, 0, 0, 0, 0, 0, 0>>,             \* 2^48
      MinusOne(U64Size) }                     \* 2^64 - 1

HashXs ==
    {MkBytes(len, 0, 0) : len \in {0} \cup ((HashLen - MaxExtra)..(HashLen + MaxExtra))}
    \cup {MkBytes(HashLen, HashLen, x) : x \in ByteSample}

\* the spec's example record: 5000 satoshis, confirmed at 650000, txNum 123456
Info0 ==
    [amount |-> <<0, 0, 0, 0, 0, 0, 19, 136>>, hashX |-> MkBytes(HashLen, 0, 0),
     confirmedHeight |-> <<0, 9, 235, 16>>, txNum |-> <<0, 0, 0, 0, 0, 1, 226, 64>>]

Infos ==
    [amount : Amounts, hashX : HashXs,
     confirmedHeight : {Info0.confirmedHeight, NullOpt}, txNum : {Info0.txNum}]
    \cup [amount : {Info0.amount}, hashX : {Info0.hashX},
          confirmedHeight : Heights, txNum : TxNums]

\* stored byte strings: of the two record sizes and near them, with one byte
\* of a field boundary varied
RawLens ==
    {0} \cup ((TXO_serSize - MaxExtra)..(TXO_serSize + MaxExtra))
        \cup ((TXOInfo_serSize - MaxExtra)..(TXOInfo_serSize + MaxExtra))

RawVary ==
    {0, 1, Int64Size, Int64Size + 1, Int64Size + IntSize, HashLen + 1, TXO_serSize}

RawBytes == {MkBytes(len, p, x) : len \in RawLens, p \in RawVary, x \in ByteSample}

NotParsed == [parsed |-> FALSE, bytes |-> <<>>]
NotSerialised == [kind |-> "input", txo |-> TXO_default, info |-> TXOInfo_default]

---------------------------------------------------------------------------
(* The caller: it holds two keys, a record and a byte string and applies   *)
(* the operations of TXO.h to them                                         *)

Init ==
    /\ bigEndian \in BOOLEAN
    /\ \/ txo \in Keys /\ other \in Keys /\ info = TXOInfo_default /\ ba = <<>>
       \/ txo = TXO_default /\ other = TXO_default /\ info \in Infos /\ ba = <<>>
       \/ txo = TXO_default /\ other = TXO_default /\ info = TXOInfo_default
          /\ ba \in RawBytes
    /\ op = "init"
    /\ txoFrom = NotParsed
    /\ infoFrom = NotParsed
    /\ baFrom = NotSerialised
    /\ reads = {}
    /\ rhs = TXO_default
    /\ cmp = FALSE
    /\ hashCall = NoHash
    /\ hashPrev = NoHash

\* The history variables cover the last two operations: each operation
\* resets those of the operations it has nothing to do with.
Frame(name) ==
    /\ op' = name
    /\ IF name \in {"TXO_fromBytes", "TXOInfo_fromBytes"} THEN TRUE
       ELSE reads' = {}
    /\ IF name \in {"TXO_fromBytes", "TXO_toBytes"} THEN TRUE
       ELSE txoFrom' = NotParsed
    /\ IF name \in {"TXOInfo_fromBytes", "TXOInfo_toBytes"} THEN TRUE
       ELSE infoFrom' = NotParsed
    /\ IF name \in {"TXO_fromBytes", "TXO_toBytes", "TXOInfo_fromBytes",
                    "TXOInfo_toBytes"} THEN TRUE
       ELSE baFrom' = NotSerialised
    /\ IF name \in {"TXO_less", "TXO_eq"} THEN TRUE
       ELSE rhs' = TXO_default /\ cmp' = FALSE
    /\ IF name = "hash" THEN TRUE ELSE hashCall' = NoHash /\ hashPrev' = NoHash
    /\ UNCHANGED <<bigEndian, other>>

Do_TXO_toBytes ==
    /\ ba' = TXO_toBytes(txo, bigEndian)
    /\ baFrom' = [kind |-> "TXO", txo |-> txo, info |-> TXOInfo_default]
    /\ Frame("TXO_toBytes")
    /\ UNCHANGED <<txo, info, txoFrom>>

Do_TXO_fromBytes ==
    /\ LET r == TXO_fromBytes(ba, bigEndian)
       IN  txo' = r.val /\ reads' = r.reads
    /\ txoFrom' = [parsed |-> TRUE, bytes |-> ba]
    /\ Frame("TXO_fromBytes")
    /\ UNCHANGED <<info, ba, baFrom>>

Do_TXOInfo_toBytes ==
    /\ ba' = TXOInfo_toBytes(info, bigEndian)
    /\ baFrom' = [kind |-> "TXOInfo", txo |-> TXO_default, info |-> info]
    /\ Frame("TXOInfo_toBytes")
    /\ UNCHANGED <<txo, info, infoFrom>>

Do_TXOInfo_fromBytes ==
    /\ LET r == TXOInfo_fromBytes(ba, bigEndian)
       IN  info' = r.val /\ reads' = r.reads
    /\ infoFrom' = [parsed |-> TRUE, bytes |-> ba]
    /\ Frame("TXOInfo_fromBytes")
    /\ UNCHANGED <<txo, ba, baFrom>>

Do_TXO_eq ==
    /\ rhs' = other
    /\ cmp' = TXO_eq(txo, other)
    /\ Frame("TXO_eq")
    /\ UNCHANGED <<txo, info, ba>>

Do_TXO_less ==
    /\ rhs' = other
    /\ cmp' = TXO_less(txo, other)
    /\ Frame("TXO_less")
    /\ UNCHANGED <<txo, info, ba>>

Do_hash ==
    /\ \E k \in {txo, other}, junk \in Junk :
          hashCall' = TXO_hash(k, bigEndian, junk)
    /\ hashPrev' = hashCall
    /\ Frame("hash")
    /\ UNCHANGED <<txo, info, ba>>

Next ==
    \/ Do_TXO_toBytes
    \/ Do_TXO_fromBytes
    \/ Do_TXOInfo_toBytes
    \/ Do_TXOInfo_fromBytes
    \/ Do_TXO_eq
    \/ Do_TXO_less
    \/ Do_hash

Spec == Init /\ [][Next]_vars

---------------------------------------------------------------------------
(* Properties *)

\* the field of a byte string at bytes [off, off + n), as a word
Field(b, off, n, be) == FromNative(SubSeq(b, off + 1, off + n), be)

\* C1: a valid TXO that is serialised with toBytes and parsed back with
\* fromBytes compares equal (operator==) to the original: txHash and outN
\* are both recovered.
C1_KeyRoundTrip ==
    (op = "TXO_fromBytes" /\ baFrom.kind = "TXO" /\ TXO_isValid(baFrom.txo))
        => TXO_eq(txo, baFrom.txo)

C1_Witness ==
    /\ op = "TXO_fromBytes"
    /\ baFrom.kind = "TXO"
    /\ TXO_isValid(baFrom.txo)
    /\ baFrom.txo.outN = 256
    /\ txo = baFrom.txo

HeightFitsInt(h) == ~HasValue(h) \/ ~IsNegative(h)
TxNumFitsCompact(t) == SubSeq(t, 1, U64Size - compactTxNumSize)
                          = ZeroWord(U64Size - compactTxNumSize)

\* C2 as stated: every valid TXOInfo, with any confirmedHeight of type
\* unsigned and any txNum of type TxNum, is equal (operator==) to
\* fromBytes of its toBytes.
C2_InfoRoundTripAnyValue ==
    (op = "TXOInfo_fromBytes" /\ baFrom.kind = "TXOInfo"
        /\ TXOInfo_isValid(baFrom.info))
        => TXOInfo_eq(info, baFrom.info)

\* C2 amended: a valid TXOInfo whose confirmedHeight is absent or at most
\* INT_MAX and whose txNum is below 2^(8 * compactTxNumSize) is equal
\* (operator==) to fromBytes of its toBytes.
C2_InfoRoundTrip ==
    (op = "TXOInfo_fromBytes" /\ baFrom.kind = "TXOInfo"
        /\ TXOInfo_isValid(baFrom.info)
        /\ HeightFitsInt(baFrom.info.confirmedHeight)
        /\ TxNumFitsCompact(baFrom.info.txNum))
        => TXOInfo_eq(info, baFrom.info)

C2_Witness ==
    /\ op = "TXOInfo_fromBytes"
    /\ baFrom.kind = "TXOInfo"
    /\ baFrom.info = Info0
    /\ info = Info0

\* C3: fromBytes of a byte string whose length is not serSize (empty,
\* short or overlong) returns the default-constructed object, which is not
\* valid (for TXO: empty txHash and outN = 0), without reading a byte.
C3_LengthGuard ==
    /\ (op = "TXO_fromBytes" /\ Len(ba) # 34)
          => /\ txo = TXO_default
             /\ txo.txHash = <<>> /\ txo.outN = 0
             /\ ~TXO_isValid(txo)
             /\ reads = {}
    /\ (op = "TXOInfo_fromBytes" /\ Len(ba) # 50)
          => /\ info = TXOInfo_default
             /\ ~TXOInfo_isValid(info)
             /\ reads = {}

C3_Witness ==
    /\ op = "TXO_fromBytes"
    /\ Len(ba) = 35
    /\ txo = TXO_default
    /\ reads = {}

\* C4: toBytes returns the empty byte string exactly when the object is not
\* valid and serSize bytes otherwise; a TXO is not valid iff its txHash is
\* not HashLen long, a TXOInfo iff its amount is negative or its hashX is
\* not HashLen long.
C4_ValidityGate ==
    /\ op = "TXO_toBytes"
          => /\ (ba = <<>>) <=> ~TXO_isValid(txo)
             /\ ~TXO_isValid(txo) <=> (Len(txo.txHash) # HashLen)
             /\ TXO_isValid(txo) => Len(ba) = TXO_serSize
    /\ op = "TXOInfo_toBytes"
          => /\ (ba = <<>>) <=> ~TXOInfo_isValid(info)
             /\ ~TXOInfo_isValid(info)
                   <=> (IsNegative(info.amount) \/ Len(info.hashX) # HashLen)
             /\ TXOInfo_isValid(info) => Len(ba) = TXOInfo_serSize

C4_Witness ==
    /\ op = "TXOInfo_toBytes"
    /\ info.amount = MinusOne(Int64Size)
    /\ Len(info.hashX) = HashLen
    /\ ~TXOInfo_isValid(info)
    /\ ba = <<>>

LexLess(a, b) ==
    \/ BytesLess(a.txHash, b.txHash)
    \/ a.txHash = b.txHash /\ a.outN < b.outN

\* C5: operator< on TXO is the lexicographic order on (txHash, outN):
\* a < b iff a.txHash < b.txHash, or the hashes are equal and
\* a.outN < b.outN.
C5_Lexicographic ==
    op = "TXO_less" => (cmp <=> LexLess(txo, rhs))

\* what C6 says of the sentinel, on both sides of the encoding
SentinelWritten ==
    (op = "TXOInfo_toBytes" /\ TXOInfo_isValid(info)
        /\ ~HasValue(info.confirmedHeight))
        => Field(ba, 8, 4, bigEndian) = MinusOne(4)

SentinelRead ==
    (op = "TXOInfo_fromBytes" /\ Len(ba) = 50)
        => LET f == Field(ba, 8, 4, bigEndian)
           IN  /\ ~HasValue(info.confirmedHeight) <=> IsNegative(f)
               /\ ~IsNegative(f) => info.confirmedHeight = f
               /\ f = MinusOne(4) => info.confirmedHeight = NullOpt

\* C6 as stated: an absent confirmedHeight is written as the int -1 in bytes
\* 8..11; fromBytes yields an absent height iff that int is negative and
\* otherwise that value; and EVERY present height comes back present and
\* unchanged from fromBytes(toBytes()).
C6_AnyHeightRoundTrips ==
    /\ SentinelWritten
    /\ SentinelRead
    /\ (op = "TXOInfo_fromBytes" /\ baFrom.kind = "TXOInfo"
          /\ TXOInfo_isValid(baFrom.info)
          /\ HasValue(baFrom.info.confirmedHeight))
          => info.confirmedHeight = baFrom.info.confirmedHeight

\* C6 amended: as stated, but only a present height of at most INT_MAX
\* comes back present and unchanged.
C6_HeightSentinel ==
    /\ SentinelWritten
    /\ SentinelRead
    /\ (op = "TXOInfo_fromBytes" /\ baFrom.kind = "TXOInfo"
          /\ TXOInfo_isValid(baFrom.info)
          /\ HasValue(baFrom.info.confirmedHeight)
          /\ ~IsNegative(baFrom.info.confirmedHeight))
          => info.confirmedHeight = baFrom.info.confirmedHeight

C6_Witness ==
    /\ op = "TXOInfo_fromBytes"
    /\ baFrom.kind = "TXOInfo"
    /\ TXOInfo_isValid(baFrom.info)
    /\ ~HasValue(baFrom.info.confirmedHeight)
    /\ Field(ba, 8, 4, bigEndian) = MinusOne(4)
    /\ info.confirmedHeight = NullOpt

\* C7: std::hash<TXO> agrees on equal keys, valid or not: two calls on keys
\* that compare equal (operator==) return the same digest, whatever the
\* storage of the union held before each call.
C7_HashOfEqualKeys ==
    (hashCall.set /\ hashPrev.set /\ TXO_eq(hashCall.key, hashPrev.key))
        => hashCall.digest = hashPrev.digest

C7_Witness ==
    /\ hashCall.set /\ hashPrev.set
    /\ TXO_eq(hashCall.key, hashPrev.key)
    /\ Len(hashCall.key.txHash) = 5
    /\ hashCall.digest = hashPrev.digest

\* C8: the bytes of a valid TXOInfo are, in this order, the int64 amount in
\* satoshis (8 bytes), the int height or -1 (4 bytes), the compact txNum
\* (compactTxNumSize bytes) and hashX (HashLen bytes), and nothing else;
\* fromBytes takes the same fields from the same places and reads no offset
\* at or beyond serSize.
C8_WireLayout ==
    /\ (op = "TXOInfo_toBytes" /\ TXOInfo_isValid(info))
          => /\ Len(ba) = 8 + 4 + compactTxNumSize + HashLen
             /\ Field(ba, 0, 8, bigEndian) = info.amount
             /\ Field(ba, 8, 4, bigEndian)
                   = IF HasValue(info.confirmedHeight)
                     THEN info.confirmedHeight ELSE MinusOne(4)
             /\ SubSeq(ba, 13, 12 + compactTxNumSize)
                   = txNumToCompactBytes(info.txNum)
             /\ SubSeq(ba, Len(ba) - HashLen + 1, Len(ba)) = info.hashX
    /\ (op = "TXOInfo_fromBytes" /\ Len(ba) = 8 + 4 + compactTxNumSize + HashLen)
          => /\ info.amount = Field(ba, 0, 8, bigEndian)
             /\ LET f == Field(ba, 8, 4, bigEndian)
                IN  info.confirmedHeight = IF IsNegative(f) THEN NullOpt ELSE f
             /\ info.txNum
                   = txNumFromCompactBytes(SubSeq(ba, 13, 12 + compactTxNumSize))
             /\ info.hashX = SubSeq(ba, Len(ba) - HashLen + 1, Len(ba))
             /\ reads = 0..(Len(ba) - 1)
    /\ op = "TXOInfo_fromBytes" => \A o \in reads : o < TXOInfo_serSize /\ o < Len(ba)

C8_Witness ==
    /\ op = "TXOInfo_fromBytes"
    /\ baFrom.kind = "TXOInfo"
    /\ Len(ba) = 50
    /\ info.txNum = <<0, 0, 255, 255, 255, 255, 255, 255>>
    /\ reads = 0..49

\* C9: the 64-bit value std::hash<TXO> passes to the integer hasher is an
\* 8-byte buffer holding the first min(txHash.length(), 6) bytes of txHash,
\* then zeroes up to offset 6, then the 2 bytes of outN; no byte past the
\* end of txHash is read; two keys with the same outN whose hashes agree on
\* the first 6 bytes get the same digest.
C9_HashInput ==
    /\ hashCall.set
          => LET c == hashCall
                 n == IF Len(c.key.txHash) < 6 THEN Len(c.key.txHash) ELSE 6
             IN  /\ Len(c.buf) = 8
                 /\ \A i \in 1..8 :
                       c.buf[i] = IF i <= n THEN c.key.txHash[i]
                                  ELSE IF i <= 6 THEN 0
                                  ELSE NativeBytes(IONumWord(c.key.outN), bigEndian)[i - 6]
                 /\ c.nread = n
                 /\ c.u64 = FromNative(c.buf, bigEndian)
    /\ (hashCall.set /\ hashPrev.set
          /\ hashCall.key.outN = hashPrev.key.outN
          /\ Len(hashCall.key.txHash) >= 6 /\ Len(hashPrev.key.txHash) >= 6
          /\ SubSeq(hashCall.key.txHash, 1, 6) = SubSeq(hashPrev.key.txHash, 1, 6))
          => hashCall.digest = hashPrev.digest

C9_Witness ==
    /\ hashCall.set /\ hashPrev.set
    /\ hashCall.key.outN = hashPrev.key.outN
    /\ Len(hashCall.key.txHash) = HashLen /\ Len(hashPrev.key.txHash) = HashLen
    /\ hashCall.key.txHash # hashPrev.key.txHash
    /\ SubSeq(hashCall.key.txHash, 1, 6) = SubSeq(hashPrev.key.txHash, 1, 6)
    /\ hashCall.digest = hashPrev.digest

\* C10: fromBytes of a byte string of exactly serSize bytes is a valid TXO
\* whose toBytes is that byte string again; fromBytes(b) is valid iff b is
\* serSize bytes long.
C10_BytesRoundTrip ==
    /\ (op = "TXO_toBytes" /\ txoFrom.parsed /\ Len(txoFrom.bytes) = 34)
          => TXO_isValid(txo) /\ ba = txoFrom.bytes
    /\ op = "TXO_fromBytes" => (TXO_isValid(txo) <=> Len(ba) = 34)

C10_Witness ==
    /\ op = "TXO_toBytes"
    /\ txoFrom.parsed
    /\ baFrom.kind = "TXO"
    /\ txoFrom.bytes \in RawBytes
    /\ Len(txoFrom.bytes) = 34
    /\ ba = txoFrom.bytes

====
